---- MODULE Spec2Model ----
(***************************************************************************)
(* Model of main.py: the YTDLDownloader class (progress hook, download     *)
(* retry loop, stop flag) together with the helpers it calls and the       *)
(* external engine (yt-dlp) as a nondeterministic environment.             *)
(***************************************************************************)
EXTENDS Integers, Sequences, FiniteSets, TLC

(***************************************************************************)
(* Bounds of the model.                                                    *)
(***************************************************************************)
\* largest max_retries argument a caller passes to download()
MaxAttempts == 3
\* largest byte count the engine reports in a progress event
MaxBytes == 2

\* main.py:27
MAX_RETRIES == 3

(***************************************************************************)
(* Python values that occur in progress events and snapshots.  A value is  *)
(* a record so that None, a missing key, integers and floats can be        *)
(* compared with each other.  A float is the exact quotient n/d, d > 0.    *)
(***************************************************************************)
None == [k |-> "none", n |-> 0, d |-> 1]
Missing == [k |-> "missing", n |-> 0, d |-> 1]
PyInt(i) == [k |-> "int", n |-> i, d |-> 1]
PyFloat(num, den) == [k |-> "float", n |-> num, d |-> den]

IsNumber(x) == x.k \in {"int", "float"}

\* bool(x) for None and numbers
Truthy(x) == IsNumber(x) /\ x.n # 0

\* a or b
PyOr(a, b) == IF Truthy(a) THEN a ELSE b

\* d.get(key) and d.get(key, default) applied to the stored field
DictGet(field) == IF field = Missing THEN None ELSE field
DictGetDefault(field, default) == IF field = Missing THEN default ELSE field

\* x > 0 on numbers
GreaterThanZero(x) == x.n > 0

\* x < 0 on numbers
LessThanZero(x) == x.n < 0

(***************************************************************************)
(* human_bytes: "Unknown" below zero, else the value scaled by 1024 with   *)
(* its unit; comparing None with 0 raises TypeError.                       *)
(***************************************************************************)
units == <<"B", "KB", "MB", "GB", "TB">>

RECURSIVE ScaleUnit(_, _)
ScaleUnit(n, i) ==
    IF n >= 1024 /\ i < Len(units) THEN ScaleUnit(n \div 1024, i + 1) ELSE i

human_bytes(n) ==
    IF ~IsNumber(n) THEN "TypeError"
    ELSE IF LessThanZero(n) THEN "Unknown"
    ELSE units[ScaleUnit(n.n \div n.d, 1)]

(***************************************************************************)
(* Raw progress events of the engine.                                      *)
(***************************************************************************)
NoStatus == "<missing>"
Statuses == {"downloading", "finished", "error", "processing", NoStatus}

ByteVals == {Missing, None} \cup {PyInt(i) : i \in 0..MaxBytes}
RateVals == {None, PyInt(1)}

RawEvents ==
    [status : {"downloading"}, downloaded_bytes : ByteVals, total_bytes : ByteVals,
     total_bytes_estimate : ByteVals, speed : RateVals, eta : RateVals]
    \cup
    [status : Statuses \ {"downloading"}, downloaded_bytes : {Missing},
     total_bytes : {Missing}, total_bytes_estimate : {Missing},
     speed : {Missing}, eta : {Missing}]

\* the events the engine emits in the orchestration specification
SomeEvents ==
    {ev \in RawEvents :
        /\ ev.speed \in {None, Missing}
        /\ ev.eta \in {None, Missing}
        /\ ev.total_bytes_estimate = Missing
        /\ ev.total_bytes \in {Missing, PyInt(MaxBytes)}
        /\ ev.downloaded_bytes \in {PyInt(1), Missing}
        /\ ev.status = "downloading" => ev.total_bytes # Missing}

(***************************************************************************)
(* _progress_hook, lines 73-97.                                            *)
(***************************************************************************)
EmptyProgress ==
    [status |-> NoStatus, downloaded_bytes |-> Missing, total_bytes |-> Missing,
     percent |-> Missing, speed |-> Missing, eta |-> Missing]

StatusOnly(s) == [EmptyProgress EXCEPT !.status = s]

\* line 76
HookDownloaded(ev) == DictGetDefault(ev.downloaded_bytes, PyInt(-1))

\* line 77
HookTotal(ev) ==
    PyOr(DictGet(ev.total_bytes), DictGetDefault(ev.total_bytes_estimate, PyInt(-1)))

\* the condition of line 81: total_bytes and downloaded_bytes and total_bytes > 0
PercentGuard(downloaded, total) ==
    Truthy(total) /\ Truthy(downloaded) /\ GreaterThanZero(total)

\* lines 80-82
HookPercent(downloaded, total) ==
    IF PercentGuard(downloaded, total)
    THEN PyFloat(downloaded.n * 100, total.n)
    ELSE None

\* variant: an event of another kind clears the snapshot
HookSnapshotResetsOnUnknown(ev, old) ==
    CASE ev.status = "downloading" ->
            [status |-> "downloading",
             downloaded_bytes |-> HookDownloaded(ev),
             total_bytes |-> HookTotal(ev),
             percent |-> HookPercent(HookDownloaded(ev), HookTotal(ev)),
             speed |-> DictGet(ev.speed),
             eta |-> DictGet(ev.eta)]
      [] ev.status = "finished" -> StatusOnly("finished")
      [] ev.status = "error" -> StatusOnly("error")
      [] OTHER -> EmptyProgress

\* variant: "finished" and "error" update the status key of the stored dictionary
HookSnapshotMerged(ev, old) ==
    CASE ev.status = "downloading" ->
            [status |-> "downloading",
             downloaded_bytes |-> HookDownloaded(ev),
             total_bytes |-> HookTotal(ev),
             percent |-> HookPercent(HookDownloaded(ev), HookTotal(ev)),
             speed |-> DictGet(ev.speed),
             eta |-> DictGet(ev.eta)]
      [] ev.status = "finished" -> [old EXCEPT !.status = "finished"]
      [] ev.status = "error" -> [old EXCEPT !.status = "error"]
      [] OTHER -> old

\* lines 83-90, 94, 97: the dictionary assigned to self._last_progress
HookSnapshot(ev, old) ==
    CASE ev.status = "downloading" ->
            [status |-> "downloading",
             downloaded_bytes |-> HookDownloaded(ev),
             total_bytes |-> HookTotal(ev),
             percent |-> HookPercent(HookDownloaded(ev), HookTotal(ev)),
             speed |-> DictGet(ev.speed),
             eta |-> DictGet(ev.eta)]
      [] ev.status = "finished" -> StatusOnly("finished")
      [] ev.status = "error" -> StatusOnly("error")
      [] OTHER -> old

\* line 91: the log line formats human_bytes of the counts; it raises when
\* human_bytes does
HookRaises(ev) ==
    /\ ev.status = "downloading"
    /\ IF HookPercent(HookDownloaded(ev), HookTotal(ev)) # None
       THEN \/ human_bytes(HookDownloaded(ev)) = "TypeError"
            \/ human_bytes(HookTotal(ev)) = "TypeError"
       ELSE human_bytes(HookDownloaded(ev)) = "TypeError"

(***************************************************************************)
(* The environment of a downloader: the formats a caller may pass, the     *)
(* directories it may name, the errors and results of the engine.          *)
(***************************************************************************)
Threads == {"t1", "t2"}

Formats == {"mp4", "mp3", "webm"}
RetryArgs == (-1)..MaxAttempts

\* "/out" exists, "/new" can be created, "/ro" cannot
Dirs == {"/out", "/new", "/ro"}
CreatableDirs == {"/out", "/new"}
ExistingDirs == {"/out"}

NoErr == "None"
Errors == {"network timeout", "HTTP Error 404"}

NoTitle == "<None>"
Infos == [title : {"Clip", NoTitle}, id : {"abc123"}]

NoTmpl == "<unset>"

\* os.path.join
PathJoin(dir, name) == dir \o "/" \o name

(***************************************************************************)
(* check_ffmpeg_available (32-34) is the variable ffmpeg;                  *)
(* safe_output_template (36-40).                                           *)
(***************************************************************************)
\* line 38-39: makedirs raises OSError when the directory cannot be created
MakedirsRaises(dir, existing) == dir \notin existing /\ dir \notin CreatableDirs

\* the directories that exist after lines 38-39
DirsAfterTemplate(dir, existing) ==
    IF dir \notin existing /\ dir \in CreatableDirs THEN existing \cup {dir} ELSE existing

\* line 40
safe_output_template(dir) == PathJoin(dir, "%(title)s [%(id)s].%(ext)s")

(***************************************************************************)
(* The pieces of download (99-159).                                        *)
(***************************************************************************)
MsgFormat == "output_format must be 'mp4' or 'mp3'"
MsgFfmpeg == "FFmpeg is required for MP3 conversion but was not found on PATH. Install ffmpeg and try again."
MsgStopped == "Download stopped by user."
MsgAllFailed(err) == "All attempts failed. Last error: " \o err
MsgMakedirs(dir) == "[Errno 13] Permission denied: '" \o dir \o "'"

NoResult == [kind |-> "none", value |-> ""]
Returned(path) == [kind |-> "return", value |-> path]
Raised(type, msg) == [kind |-> type, value |-> msg]

\* variant: a format the engine knows but download does not offer is let through
FormatSupportedLoose(fmt) == fmt \in {"mp4", "mp3", "webm"}

\* line 100
FormatSupported(fmt) == fmt \in {"mp4", "mp3"}

\* variant: the probe is asked for the wrong format
NeedsFfmpegForVideo(fmt) == fmt = "mp4"

\* line 103
NeedsFfmpeg(fmt) == fmt = "mp3"

\* variant: the loop runs once more than max_retries
LoopDecisionOneMore(stop, att, n) ==
    IF att > n + 1 THEN "exhausted"
    ELSE IF stop THEN "stopped"
    ELSE "attempt"

\* variant: the flag is not looked at before the first attempt
LoopDecisionSkipFirst(stop, att, n) ==
    IF att > n THEN "exhausted"
    ELSE IF stop /\ att > 1 THEN "stopped"
    ELSE "attempt"

\* variant: the flag is looked at once, before the loop, not in every iteration
LoopDecisionFirstOnly(stop, att, n) ==
    IF att > n THEN "exhausted"
    ELSE IF stop /\ att = 1 THEN "stopped"
    ELSE "attempt"

\* variant: the flag is also looked at after the last iteration
LoopDecisionStopFirst(stop, att, n) ==
    IF stop THEN "stopped"
    ELSE IF att > n THEN "exhausted"
    ELSE "attempt"

\* lines 139-141 and 159: what the top of an iteration does, given the flag,
\* the number of the iteration and max_retries
LoopDecision(stop, att, n) ==
    IF att > n THEN "exhausted"
    ELSE IF stop THEN "stopped"
    ELSE "attempt"

\* variant: the first error is kept
KeepFirstErr(old, exc) == IF old = NoErr THEN exc ELSE old

\* line 154
NextLastErr(old, exc) == exc

\* line 156
Backoff(att) == 1 + att

\* variant: no sleep after a failed attempt
NoWaitAfterFailure(ws, att, n) == ws

\* lines 153-157: the waits made so far after attempt att of n has failed
WaitsAfterFailure(ws, att, n) == Append(ws, Backoff(att))

\* lines 146-150
FinalPath(dir, fmt, info) ==
    LET ext == IF fmt = "mp3" THEN "mp3" ELSE "mp4"
        title == IF info.title \notin {NoTitle, ""} THEN info.title ELSE info.id
    IN  PathJoin(dir, title \o " [" \o info.id \o "]." \o ext)

(***************************************************************************)
(* State.                                                                  *)
(***************************************************************************)
VARIABLES
    output_dir,        \* self.output_dir
    _last_progress,    \* self._last_progress
    _stop_requested,   \* self._stop_requested
    ffmpeg,            \* whether ffmpeg is on PATH
    existing_dirs,     \* the directories of the file system
    pc,                \* where each thread is in download()
    output_format,     \* download's argument
    max_retries,       \* download's argument
    outtmpl,           \* download's local
    attempt,           \* the loop variable
    exc,               \* the exception of the latest engine call (e, line 153)
    last_err,          \* download's local
    result,            \* what the call returned or raised
    engine_calls,      \* number of extract_info calls of this request
    waits,             \* the durations of the time.sleep calls of this request
    hook_raised,       \* whether the latest _progress_hook call raised
    stop_seen,         \* where the thread was when the flag was set
    st,                \* monitor's local: the snapshot it has read (line 273)
    status_var,        \* the status line of the window
    progress_value     \* progress["value"]

shared == <<output_dir, _last_progress, _stop_requested, ffmpeg, existing_dirs>>
args == <<output_format, max_retries>>
locals == <<outtmpl, attempt, exc, last_err>>
history == <<engine_calls, waits, hook_raised>>
gui == <<st, status_var, progress_value>>
vars == <<shared, pc, args, locals, result, history, stop_seen, gui>>

\* monitor is not between its read and its display
NotRead == StatusOnly("<not read>")

\* what set_status shows: a text, and the percent and eta the monitor formats
StatusText(text) == [text |-> text, pct |-> None, eta |-> None]

\* line 210
Idle == StatusText("Idle")

NotStopped == [pc |-> "never", attempt |-> 0, calls |-> 0, nwaits |-> 0]

Init ==
    /\ output_dir \in Dirs
    /\ _last_progress = EmptyProgress
    /\ _stop_requested = FALSE
    /\ ffmpeg \in BOOLEAN
    /\ existing_dirs = ExistingDirs
    /\ pc = [w \in Threads |-> "idle"]
    /\ output_format = [w \in Threads |-> "mp4"]
    /\ max_retries = [w \in Threads |-> MAX_RETRIES]
    /\ outtmpl = [w \in Threads |-> NoTmpl]
    /\ attempt = [w \in Threads |-> 0]
    /\ exc = [w \in Threads |-> NoErr]
    /\ last_err = [w \in Threads |-> NoErr]
    /\ result = [w \in Threads |-> NoResult]
    /\ engine_calls = [w \in Threads |-> 0]
    /\ waits = [w \in Threads |-> <<>>]
    /\ hook_raised = [w \in Threads |-> FALSE]
    /\ stop_seen = [w \in Threads |-> NotStopped]
    /\ st = NotRead
    /\ status_var = Idle
    /\ progress_value = PyInt(0)

(***************************************************************************)
(* Actions.                                                                *)
(***************************************************************************)
\* a raise that leaves download(): the call ends with the exception
Raise(w, type, msg) ==
    /\ pc' = [pc EXCEPT ![w] = "done"]
    /\ result' = [result EXCEPT ![w] = Raised(type, msg)]

\* variant: a new call of download clears the flag
CallClearsFlag(w, fmt, n) ==
    /\ pc[w] = "idle"
    /\ pc' = [pc EXCEPT ![w] = "format_check"]
    /\ output_format' = [output_format EXCEPT ![w] = fmt]
    /\ max_retries' = [max_retries EXCEPT ![w] = n]
    /\ _stop_requested' = FALSE
    /\ stop_seen' = [stop_seen EXCEPT ![w] =
            IF _stop_requested THEN [NotStopped EXCEPT !.pc = "idle"] ELSE NotStopped]
    /\ UNCHANGED <<output_dir, _last_progress, ffmpeg, existing_dirs, locals, result,
                   history, gui>>

\* thread w calls downloader.download(url, fmt, n) (lines 189, 260)
Call(w, fmt, n) ==
    /\ pc[w] = "idle"
    /\ pc' = [pc EXCEPT ![w] = "format_check"]
    /\ output_format' = [output_format EXCEPT ![w] = fmt]
    /\ max_retries' = [max_retries EXCEPT ![w] = n]
    /\ stop_seen' = [stop_seen EXCEPT ![w] =
            IF _stop_requested THEN [NotStopped EXCEPT !.pc = "idle"] ELSE NotStopped]
    /\ UNCHANGED <<shared, locals, result, history>>
    /\ UNCHANGED gui

\* lines 100-101
FormatCheck(w) ==
    /\ pc[w] = "format_check"
    /\ IF FormatSupported(output_format[w])
       THEN pc' = [pc EXCEPT ![w] = "ffmpeg_check"] /\ UNCHANGED result
       ELSE Raise(w, "ValueError", MsgFormat)
    /\ UNCHANGED <<shared, args, locals, history, stop_seen>>
    /\ UNCHANGED gui

\* lines 103-105
FfmpegCheck(w) ==
    /\ pc[w] = "ffmpeg_check"
    /\ IF NeedsFfmpeg(output_format[w]) /\ ~ffmpeg
       THEN Raise(w, "RuntimeError", MsgFfmpeg)
       ELSE pc' = [pc EXCEPT ![w] = "resolve"] /\ UNCHANGED result
    /\ UNCHANGED <<shared, args, locals, history, stop_seen>>
    /\ UNCHANGED gui

\* lines 107-138: the output template, the options, last_err = None
Resolve(w) ==
    /\ pc[w] = "resolve"
    /\ IF MakedirsRaises(output_dir, existing_dirs)
       THEN /\ Raise(w, "OSError", MsgMakedirs(output_dir))
            /\ UNCHANGED <<existing_dirs, locals>>
       ELSE /\ existing_dirs' = DirsAfterTemplate(output_dir, existing_dirs)
            /\ outtmpl' = [outtmpl EXCEPT ![w] = safe_output_template(output_dir)]
            /\ last_err' = [last_err EXCEPT ![w] = NoErr]
            /\ attempt' = [attempt EXCEPT ![w] = 1]
            /\ pc' = [pc EXCEPT ![w] = "loop"]
            /\ UNCHANGED <<exc, result>>
    /\ UNCHANGED <<output_dir, _last_progress, _stop_requested, ffmpeg, args, history,
                   stop_seen>>
    /\ UNCHANGED gui

\* lines 139-141 and 159: the top of an iteration
LoopTop(w) ==
    /\ pc[w] = "loop"
    /\ LET what == LoopDecision(_stop_requested, attempt[w], max_retries[w])
       IN  CASE what = "exhausted" ->
                    Raise(w, "RuntimeError", MsgAllFailed(last_err[w]))
             [] what = "stopped" -> Raise(w, "RuntimeError", MsgStopped)
             [] OTHER -> pc' = [pc EXCEPT ![w] = "invoke"] /\ UNCHANGED result
    /\ UNCHANGED <<shared, args, locals, history, stop_seen>>
    /\ UNCHANGED gui

\* lines 143-145: the engine is called
Invoke(w) ==
    /\ pc[w] = "invoke"
    /\ pc' = [pc EXCEPT ![w] = "running"]
    /\ engine_calls' = [engine_calls EXCEPT ![w] = @ + 1]
    /\ UNCHANGED <<shared, args, locals, result, waits, hook_raised, stop_seen>>
    /\ UNCHANGED gui

\* lines 73-97: the engine reports progress while the attempt runs
progress_hook(w, ev) ==
    /\ pc[w] = "running"
    /\ _last_progress' = HookSnapshot(ev, _last_progress)
    /\ hook_raised' = [hook_raised EXCEPT ![w] = HookRaises(ev)]
    /\ UNCHANGED <<output_dir, _stop_requested, ffmpeg, existing_dirs, pc, args, locals,
                   result, engine_calls, waits, stop_seen>>
    /\ UNCHANGED gui

\* variant: the flag is looked at again when extract_info returns
EngineReturnsChecksFlag(w, info) ==
    /\ pc[w] = "running"
    /\ pc' = [pc EXCEPT ![w] = "done"]
    /\ result' = [result EXCEPT ![w] =
            IF _stop_requested
            THEN Raised("RuntimeError", MsgStopped)
            ELSE Returned(FinalPath(output_dir, output_format[w], info))]
    /\ UNCHANGED <<shared, args, locals, history, stop_seen, gui>>

\* variant: the path is computed but the loop is not left
EngineReturnsKeepsLooping(w, info) ==
    /\ pc[w] = "running"
    /\ pc' = [pc EXCEPT ![w] = "loop"]
    /\ attempt' = [attempt EXCEPT ![w] = @ + 1]
    /\ result' = [result EXCEPT ![w] =
            Returned(FinalPath(output_dir, output_format[w], info))]
    /\ UNCHANGED <<shared, args, outtmpl, exc, last_err, history, stop_seen, gui>>

\* lines 145-152: extract_info returns
EngineReturns(w, info) ==
    /\ pc[w] = "running"
    /\ pc' = [pc EXCEPT ![w] = "done"]
    /\ result' = [result EXCEPT ![w] =
            Returned(FinalPath(output_dir, output_format[w], info))]
    /\ UNCHANGED <<shared, args, locals, history, stop_seen>>
    /\ UNCHANGED gui

\* lines 153-156: extract_info raises, the thread starts to sleep
EngineRaises(w, err) ==
    /\ pc[w] = "running"
    /\ pc' = [pc EXCEPT ![w] = "sleeping"]
    /\ exc' = [exc EXCEPT ![w] = err]
    /\ last_err' = [last_err EXCEPT ![w] = NextLastErr(last_err[w], err)]
    /\ waits' = [waits EXCEPT ![w] = WaitsAfterFailure(@, attempt[w], max_retries[w])]
    /\ UNCHANGED <<shared, args, outtmpl, attempt, result, engine_calls, hook_raised,
                   stop_seen>>
    /\ UNCHANGED gui

\* lines 156-157: the sleep ends, the loop continues
Wake(w) ==
    /\ pc[w] = "sleeping"
    /\ pc' = [pc EXCEPT ![w] = "loop"]
    /\ attempt' = [attempt EXCEPT ![w] = @ + 1]
    /\ UNCHANGED <<shared, args, outtmpl, exc, last_err, result, history, stop_seen>>
    /\ UNCHANGED gui

\* the caller has taken the result (lines 190-193, 261-267); the thread is free
Finish(w) ==
    /\ pc[w] = "done"
    /\ pc' = [pc EXCEPT ![w] = "idle"]
    /\ outtmpl' = [outtmpl EXCEPT ![w] = NoTmpl]
    /\ attempt' = [attempt EXCEPT ![w] = 0]
    /\ exc' = [exc EXCEPT ![w] = NoErr]
    /\ last_err' = [last_err EXCEPT ![w] = NoErr]
    /\ result' = [result EXCEPT ![w] = NoResult]
    /\ engine_calls' = [engine_calls EXCEPT ![w] = 0]
    /\ waits' = [waits EXCEPT ![w] = <<>>]
    /\ hook_raised' = [hook_raised EXCEPT ![w] = FALSE]
    /\ stop_seen' = [stop_seen EXCEPT ![w] = NotStopped]
    /\ UNCHANGED <<shared, args>>
    /\ UNCHANGED gui

\* lines 161-162, called from any context
stop ==
    /\ ~_stop_requested
    /\ _stop_requested' = TRUE
    /\ stop_seen' = [w \in Threads |->
            IF pc[w] = "idle" THEN stop_seen[w]
            ELSE [pc |-> pc[w], attempt |-> attempt[w], calls |-> engine_calls[w],
                  nwaits |-> Len(waits[w])]]
    /\ UNCHANGED <<output_dir, _last_progress, ffmpeg, existing_dirs, pc, args, locals,
                   result, history>>
    /\ UNCHANGED gui

(***************************************************************************)
(* run_gui (195-287): do_download on the main thread, the thread it        *)
(* starts, and the monitor callback.                                       *)
(***************************************************************************)
\* what the user has typed into the URL and output folder fields
Urls == {"", "https://x/video"}
GuiDirs == {"", "/out", "/new"}
\* the values of the format combobox, line 218
GuiFormats == {"mp4", "mp3"}

\* max(a, b) and min(a, b) of Python: the first argument wins a tie
PyMax(a, b) == IF b.n * a.d > a.n * b.d THEN b ELSE a
PyMin(a, b) == IF b.n * a.d < a.n * b.d THEN b ELSE a

\* line 275: st.get("percent") or 0.0
MonitorPct(snap) == PyOr(DictGet(snap.percent), PyFloat(0, 1))

\* line 276
ProgressBarValue(pct) == PyMax(PyInt(0), PyMin(PyInt(100), pct))

\* lines 273: the read that starts a run of monitor
MonitorReads == st' = _last_progress

\* lines 244-270 and the call of monitor in line 282 up to its read
do_download(w, url, fmt, outd) ==
    /\ st = NotRead
    /\ pc[w] = "idle"
    /\ IF url = "" \/ outd = ""
       THEN UNCHANGED vars
       ELSE /\ output_dir' = outd
            /\ pc' = [pc EXCEPT ![w] = "target"]
            /\ output_format' = [output_format EXCEPT ![w] = fmt]
            /\ max_retries' = [max_retries EXCEPT ![w] = MAX_RETRIES]
            /\ MonitorReads
            /\ UNCHANGED <<_last_progress, _stop_requested, ffmpeg, existing_dirs, locals,
                           result, history, stop_seen, status_var, progress_value>>

\* lines 257-260: the thread starts and calls download
TargetStart(w) ==
    /\ pc[w] = "target"
    /\ pc' = [pc EXCEPT ![w] = "format_check"]
    /\ status_var' = StatusText("Starting download...")
    /\ UNCHANGED <<shared, args, locals, result, history, stop_seen, st, progress_value>>

\* lines 261-267: the thread shows what download returned or raised, and ends
TargetEnd(w) ==
    /\ pc[w] = "done"
    /\ pc' = [pc EXCEPT ![w] = "exited"]
    /\ IF result[w].kind = "return"
       THEN /\ status_var' = StatusText("Saved: " \o result[w].value)
            /\ progress_value' = PyInt(100)
       ELSE /\ status_var' = StatusText("Error: " \o result[w].value)
            /\ UNCHANGED progress_value
    /\ UNCHANGED <<shared, args, locals, result, history, stop_seen, st>>

\* line 281 and 273: the timer runs monitor again, which reads the snapshot
monitor_read ==
    /\ st = NotRead
    /\ \E w \in Threads : pc[w] # "idle"
    /\ MonitorReads
    /\ UNCHANGED <<shared, pc, args, locals, result, history, stop_seen, status_var,
                   progress_value>>

\* lines 274-281: monitor shows the snapshot it has read
monitor_show ==
    /\ st # NotRead
    /\ st' = NotRead
    /\ CASE st.status = "downloading" ->
                /\ progress_value' = ProgressBarValue(MonitorPct(st))
                /\ status_var' = [text |-> "Downloading", pct |-> MonitorPct(st),
                                  eta |-> DictGet(st.eta)]
         [] st.status = "finished" ->
                /\ progress_value' = PyInt(95)
                /\ status_var' = StatusText("Post-processing...")
         [] OTHER -> UNCHANGED <<status_var, progress_value>>
    /\ UNCHANGED <<shared, pc, args, locals, result, history, stop_seen>>

(***************************************************************************)
(* Spec: one thread calls download() again and again with any arguments,   *)
(* as cli_main does once (187-189); stop() comes from another context.     *)
(***************************************************************************)
Caller == "t1"

Next ==
    \/ \E fmt \in Formats, n \in RetryArgs : Call(Caller, fmt, n)
    \/ FormatCheck(Caller)
    \/ FfmpegCheck(Caller)
    \/ Resolve(Caller)
    \/ LoopTop(Caller)
    \/ Invoke(Caller)
    \/ \E ev \in SomeEvents : progress_hook(Caller, ev)
    \/ \E info \in Infos : EngineReturns(Caller, info)
    \/ \E err \in Errors : EngineRaises(Caller, err)
    \/ Wake(Caller)
    \/ Finish(Caller)
    \/ stop

Spec == Init /\ [][Next]_vars

(***************************************************************************)
(* SpecLive: Spec with the scheduling a request relies on: the thread that *)
(* runs download() keeps being scheduled, every call of extract_info       *)
(* returns or raises, and every time.sleep ends.                           *)
(***************************************************************************)
ThreadStep(w) ==
    FormatCheck(w) \/ FfmpegCheck(w) \/ Resolve(w) \/ LoopTop(w) \/ Invoke(w)

EngineEnds(w) ==
    \/ \E info \in Infos : EngineReturns(w, info)
    \/ \E err \in Errors : EngineRaises(w, err)

SpecLive ==
    /\ Init
    /\ [][Next]_vars
    /\ WF_vars(ThreadStep(Caller))
    /\ WF_vars(EngineEnds(Caller))
    /\ WF_vars(Wake(Caller))

(***************************************************************************)
(* SpecHook: the engine is running the first attempt of a request and      *)
(* hands _progress_hook any raw event.                                     *)
(***************************************************************************)
InitHook ==
    /\ output_dir = "/out"
    /\ _last_progress = EmptyProgress
    /\ _stop_requested = FALSE
    /\ ffmpeg \in BOOLEAN
    /\ existing_dirs = ExistingDirs
    /\ pc = [w \in Threads |-> IF w = Caller THEN "running" ELSE "idle"]
    /\ output_format = [w \in Threads |-> "mp4"]
    /\ max_retries = [w \in Threads |-> MAX_RETRIES]
    /\ outtmpl = [w \in Threads |->
            IF w = Caller THEN safe_output_template("/out") ELSE NoTmpl]
    /\ attempt = [w \in Threads |-> IF w = Caller THEN 1 ELSE 0]
    /\ exc = [w \in Threads |-> NoErr]
    /\ last_err = [w \in Threads |-> NoErr]
    /\ result = [w \in Threads |-> NoResult]
    /\ engine_calls = [w \in Threads |-> IF w = Caller THEN 1 ELSE 0]
    /\ waits = [w \in Threads |-> <<>>]
    /\ hook_raised = [w \in Threads |-> FALSE]
    /\ stop_seen = [w \in Threads |-> NotStopped]
    /\ st = NotRead
    /\ status_var = Idle
    /\ progress_value = PyInt(0)

NextHook == \E ev \in RawEvents : progress_hook(Caller, ev)

SpecHook == InitHook /\ [][NextHook]_vars

(***************************************************************************)
(* SpecGui: the window of run_gui.  The user presses Download up to twice  *)
(* with any field values; each press starts a thread on the one            *)
(* downloader; the monitor polls the snapshot.  The window has no control  *)
(* that calls stop().                                                      *)
(***************************************************************************)
GuiEvents ==
    {ev \in SomeEvents :
        \/ ev.status = "downloading" /\ ev.downloaded_bytes # Missing
        \/ ev.status \in {"finished", "processing"}}
GuiErrors == {"network timeout"}
GuiInfos == {info \in Infos : info.title # NoTitle}

InitGui == Init /\ output_dir \in GuiDirs \ {""}

NextGui ==
    \/ \E w \in Threads, url \in Urls, fmt \in GuiFormats, outd \in GuiDirs :
            do_download(w, url, fmt, outd)
    \/ \E w \in Threads : TargetStart(w)
    \/ \E w \in Threads : FormatCheck(w)
    \/ \E w \in Threads : FfmpegCheck(w)
    \/ \E w \in Threads : Resolve(w)
    \/ \E w \in Threads : LoopTop(w)
    \/ \E w \in Threads : Invoke(w)
    \/ \E w \in Threads, ev \in GuiEvents : progress_hook(w, ev)
    \/ \E w \in Threads, info \in GuiInfos : EngineReturns(w, info)
    \/ \E w \in Threads, err \in GuiErrors : EngineRaises(w, err)
    \/ \E w \in Threads : Wake(w)
    \/ \E w \in Threads : TargetEnd(w)
    \/ monitor_read
    \/ monitor_show

SpecGui == InitGui /\ [][NextGui]_vars

(***************************************************************************)
(* Properties.                                                             *)
(***************************************************************************)
Stopped == Raised("RuntimeError", MsgStopped)
AllFailed(err) == Raised("RuntimeError", MsgAllFailed(err))

\* the checks before the loop have passed: the output template is set (line 107)
ChecksPassed(w) == outtmpl[w] # NoTmpl

\* the waits 2, 3, ... that follow the failed attempts 1..k
BackoffSequence(k) == [i \in 1..k |-> 1 + i]

\* C1: a request with max_retries = N >= 1 that is not cancelled and whose
\* engine calls all fail has called the engine exactly N times, the wait after
\* failed attempt i lasted 1 + i, and it ends with "All attempts failed" that
\* cites the error of the latest (N-th) engine call.
C1_ExhaustedAfterNAttempts ==
    \A w \in Threads :
        /\ \A i \in 1..Len(waits[w]) : waits[w][i] = 1 + i
        /\ (/\ pc[w] = "done"
            /\ ChecksPassed(w)
            /\ max_retries[w] >= 1
            /\ result[w].kind # "return"
            /\ result[w] # Stopped)
           => /\ engine_calls[w] = max_retries[w]
              /\ exc[w] \in Errors
              /\ result[w] = AllFailed(exc[w])

C1_Witness ==
    \E w \in Threads :
        /\ pc[w] = "done"
        /\ max_retries[w] = 3
        /\ engine_calls[w] = 3
        /\ waits[w] = <<2, 3, 4>>
        /\ result[w] = AllFailed("HTTP Error 404")

\* C2: a request that succeeds on attempt K has called the engine exactly K
\* times, K <= max_retries, and has waited exactly K-1 times, 1 + i after each
\* failed attempt i < K and not after the successful one.
C2_SuccessOnAttemptK ==
    \A w \in Threads :
        result[w].kind = "return"
        => /\ engine_calls[w] = attempt[w]
           /\ attempt[w] <= max_retries[w]
           /\ waits[w] = BackoffSequence(attempt[w] - 1)

C2_Witness ==
    \E w \in Threads :
        /\ result[w].kind = "return"
        /\ max_retries[w] = 3
        /\ engine_calls[w] = 2
        /\ waits[w] = <<2>>
        /\ exc[w] = "network timeout"

\* C3: no backoff wait follows the failure of the last attempt: a thread
\* sleeps only after an attempt numbered below max_retries, and a request
\* whose N >= 1 attempts all failed has waited N-1 times.
C3_NoBackoffAfterLastAttempt ==
    \A w \in Threads :
        /\ pc[w] = "sleeping" => attempt[w] < max_retries[w]
        /\ (pc[w] = "done" /\ max_retries[w] >= 1 /\ result[w] = AllFailed(exc[w]))
           => Len(waits[w]) = max_retries[w] - 1

\* stop() came before the first iteration of the loop checked the flag
StoppedBeforeFirstAttempt(w) ==
    \/ stop_seen[w].pc \in {"idle", "format_check", "ffmpeg_check", "resolve"}
    \/ stop_seen[w].pc = "loop" /\ stop_seen[w].attempt = 1

\* C4: when stop() was called before the first attempt of a request whose
\* checks pass (max_retries >= 1), the engine is never called, no wait is
\* made, and the request ends with "Download stopped by user.".
C4_StopBeforeFirstAttempt ==
    \A w \in Threads :
        StoppedBeforeFirstAttempt(w)
        => /\ engine_calls[w] = 0
           /\ waits[w] = <<>>
           /\ pc[w] \notin {"invoke", "running", "sleeping"}
           /\ (pc[w] = "done" /\ ChecksPassed(w) /\ max_retries[w] >= 1)
              => result[w] = Stopped

C4_Witness ==
    \E w \in Threads :
        /\ StoppedBeforeFirstAttempt(w)
        /\ pc[w] = "done"
        /\ ChecksPassed(w)
        /\ result[w] = Stopped
        /\ engine_calls[w] = 0

\* C5: when stop() is called while the thread sleeps after a failed attempt,
\* no further engine call is started.
C5_StopDuringBackoff ==
    \A w \in Threads :
        stop_seen[w].pc = "sleeping"
        => /\ engine_calls[w] = stop_seen[w].calls
           /\ pc[w] \notin {"invoke", "running"}

C5_Witness ==
    \E w \in Threads :
        /\ stop_seen[w].pc = "sleeping"
        /\ stop_seen[w].attempt < max_retries[w]
        /\ pc[w] = "done"
        /\ result[w] = Stopped
        /\ engine_calls[w] = 2

\* stop() came while the request was between its call and its end
StoppedDuringRequest(w) == stop_seen[w].pc \notin {"never", "done"}

\* stop() came while an attempt was about to start or in flight
StoppedInFlight(w) == stop_seen[w].pc \in {"invoke", "running"}

\* C6 as claimed: once the flag is set, a request that does not succeed ends
\* with "Download stopped by user.", never with "All attempts failed", and
\* no wait is started after the flag was set.
C6_CancelAlwaysWins ==
    \A w \in Threads :
        (StoppedDuringRequest(w) /\ max_retries[w] >= 1)
        => /\ Len(waits[w]) = stop_seen[w].nwaits
           /\ (pc[w] = "done" /\ ChecksPassed(w) /\ result[w].kind # "return")
              => result[w] = Stopped

\* the number of the first iteration whose top comes after stop()
NextCheckpoint(w) ==
    IF stop_seen[w].pc \in {"invoke", "running", "sleeping"}
    THEN stop_seen[w].attempt + 1
    ELSE IF stop_seen[w].attempt = 0 THEN 1 ELSE stop_seen[w].attempt

\* C6 amended: the flag takes precedence at the top of every iteration,
\* whatever its number: a request that does not succeed after stop() ends with
\* "Download stopped by user." when an iteration 1..max_retries was still to
\* start, and with "All attempts failed" when the attempt in flight (or just
\* failed) was the last one; the only wait started after stop() is the one
\* that follows the failure of the attempt that was in flight.
C6_CancelAtNextCheckpoint ==
    \A w \in Threads :
        StoppedDuringRequest(w)
        => /\ Len(waits[w]) <= stop_seen[w].nwaits + (IF StoppedInFlight(w) THEN 1 ELSE 0)
           /\ engine_calls[w] <=
                stop_seen[w].calls + (IF stop_seen[w].pc = "invoke" THEN 1 ELSE 0)
           /\ (pc[w] = "done" /\ ChecksPassed(w) /\ result[w].kind # "return")
              => result[w] = IF NextCheckpoint(w) <= max_retries[w]
                             THEN Stopped
                             ELSE AllFailed(last_err[w])

C6_Witness ==
    \E w \in Threads :
        /\ stop_seen[w].pc = "running"
        /\ stop_seen[w].attempt = 1
        /\ max_retries[w] = 2
        /\ pc[w] = "done"
        /\ result[w] = Stopped
        /\ waits[w] = <<2>>

\* C7: a request for mp3 while ffmpeg is not on PATH ends with the FFmpeg
\* error before anything else: no engine call, no wait, and the output
\* template (with the directory it creates) is never resolved.
C7_MissingFfmpegFailsFast ==
    \A w \in Threads :
        (pc[w] # "idle" /\ output_format[w] = "mp3" /\ ~ffmpeg)
        => /\ engine_calls[w] = 0
           /\ waits[w] = <<>>
           /\ outtmpl[w] = NoTmpl
           /\ pc[w] \in {"format_check", "ffmpeg_check", "done"}
           /\ pc[w] = "done" => result[w] = Raised("RuntimeError", MsgFfmpeg)

C7_Witness ==
    \E w \in Threads :
        /\ pc[w] = "done"
        /\ output_format[w] = "mp3"
        /\ ~ffmpeg
        /\ output_dir = "/new"
        /\ "/new" \notin existing_dirs
        /\ result[w] = Raised("RuntimeError", MsgFfmpeg)

\* the percent of the snapshot is absent
PercentAbsent == _last_progress.percent \in {Missing, None}

\* C8: the percent of the snapshot is absent or lies in [0, 100].
C8_PercentInRange ==
    \/ PercentAbsent
    \/ /\ 0 <= _last_progress.percent.n
       /\ _last_progress.percent.n <= 100 * _last_progress.percent.d

\* the counts of the snapshot are known: total > 0 and downloaded >= 0
CountsKnown ==
    /\ IsNumber(_last_progress.total_bytes)
    /\ _last_progress.total_bytes.n > 0
    /\ IsNumber(_last_progress.downloaded_bytes)
    /\ _last_progress.downloaded_bytes.n >= 0

\* C9: in a "downloading" snapshot the percent is present exactly when
\* total > 0 and downloaded >= 0, and is then downloaded / total * 100.
C9_PercentPresentIffKnown ==
    _last_progress.status = "downloading"
    => /\ ~PercentAbsent <=> CountsKnown
       /\ ~PercentAbsent =>
            _last_progress.percent.n * _last_progress.total_bytes.n
                = _last_progress.downloaded_bytes.n * 100 * _last_progress.percent.d

\* C10: a "downloading" event with unknown counts stores -1, never None, and
\* _progress_hook returns without raising.
C10_UnknownCountsAreMinusOne ==
    /\ \A w \in Threads : ~hook_raised[w]
    /\ _last_progress.status = "downloading"
       => /\ _last_progress.downloaded_bytes # None
          /\ _last_progress.total_bytes # None

\* C11: the path a request returns is '<title> [<id>].<ext>' inside the
\* directory for which its output template was resolved (line 107).
C11_FinalPathInTemplateDir ==
    \A w \in Threads :
        result[w].kind = "return"
        => \E dir \in Dirs, info \in Infos :
                /\ outtmpl[w] = safe_output_template(dir)
                /\ result[w].value = FinalPath(dir, output_format[w], info)

\* C12: the outcome of a request is set once, when download ends; from then
\* on the request makes no engine call and no wait and its outcome does not
\* change, and the snapshot changes only while some request without an
\* outcome has an attempt running.
C12_OutcomeIsTerminal ==
    [][\A w \in Threads :
          /\ result[w] # NoResult
             => /\ result'[w] = result[w]
                /\ engine_calls'[w] = engine_calls[w]
                /\ waits'[w] = waits[w]
                /\ pc[w] \in {"done", "exited"}
                /\ pc'[w] \in {"done", "exited"}
          /\ result'[w] # result[w] => pc[w] \notin {"done", "exited"} /\ pc'[w] = "done"
          /\ _last_progress' # _last_progress
             => \E v \in Threads : pc[v] = "running" /\ result[v] = NoResult]_vars

C12_Witness ==
    \E w \in Threads, v \in Threads :
        /\ pc[w] = "exited"
        /\ result[w].kind = "return"
        /\ engine_calls[w] = 2
        /\ pc[v] = "running"
        /\ _last_progress.status = "downloading"
        /\ status_var.text = "Downloading"

\* every key of a snapshot comes from the one event that made it
WholeSnapshot(snap) ==
    CASE snap.status = "downloading" ->
            /\ snap.downloaded_bytes # Missing
            /\ snap.total_bytes # Missing
            /\ snap.speed # Missing
            /\ snap.eta # Missing
            /\ snap.percent = HookPercent(snap.downloaded_bytes, snap.total_bytes)
      [] OTHER -> snap = StatusOnly(snap.status)

\* C13: the snapshot is replaced as a whole: the stored snapshot, and every
\* snapshot the monitor holds between its read and its display, has all its
\* keys from one event.
C13_SnapshotNeverTorn ==
    /\ WholeSnapshot(_last_progress)
    /\ st # NotRead => WholeSnapshot(st)

C13_Witness ==
    /\ st.status = "downloading"
    /\ _last_progress.status = "finished"
    /\ \E w \in Threads : pc[w] = "running"

\* C14: the fatal checks come before any attempt: a format other than mp4
\* and mp3 ends with the ValueError, whatever ffmpeg and the directory are,
\* and a directory that cannot be created ends with the OSError of makedirs;
\* in both cases the engine is not called and no wait is made.
C14_FatalChecksBeforeAttempts ==
    \A w \in Threads :
        /\ (pc[w] # "idle" /\ output_format[w] \notin {"mp4", "mp3"})
           => /\ engine_calls[w] = 0
              /\ waits[w] = <<>>
              /\ outtmpl[w] = NoTmpl
              /\ pc[w] \in {"format_check", "done"}
              /\ pc[w] = "done" => result[w] = Raised("ValueError", MsgFormat)
        /\ (/\ pc[w] = "done"
            /\ output_format[w] \in {"mp4", "mp3"}
            /\ output_format[w] = "mp3" => ffmpeg
            /\ output_dir \notin existing_dirs
            /\ output_dir \notin CreatableDirs)
           => /\ result[w] = Raised("OSError", MsgMakedirs(output_dir))
              /\ engine_calls[w] = 0
              /\ waits[w] = <<>>

C14_Witness ==
    \E w \in Threads :
        /\ pc[w] = "done"
        /\ output_format[w] = "webm"
        /\ ~ffmpeg
        /\ output_dir = "/ro"
        /\ result[w] = Raised("ValueError", MsgFormat)

\* the events whose kind is not "downloading"
OtherEvents == {ev \in RawEvents : ev.status # "downloading"}

\* C15: an event of a kind other than downloading, finished and error (or
\* without status) changes neither the snapshot nor the flag and does not
\* raise; an error event only makes the snapshot {status: error}: the attempt
\* keeps running, the attempt number, the engine calls and the outcome stay.
C15_OtherEventsIgnored ==
    [][\A w \in Threads, ev \in OtherEvents :
          progress_hook(w, ev)
          => /\ ev.status \notin {"finished", "error"}
                => /\ _last_progress' = _last_progress
                   /\ _stop_requested' = _stop_requested
                   /\ ~hook_raised'[w]
             /\ ev.status = "error"
                => /\ _last_progress' = StatusOnly("error")
                   /\ _stop_requested' = _stop_requested
                   /\ ~hook_raised'[w]
                   /\ pc'[w] = "running"
                   /\ attempt' = attempt
                   /\ engine_calls' = engine_calls
                   /\ result' = result]_vars

C15_Witness ==
    \E w \in Threads :
        /\ _last_progress = StatusOnly("error")
        /\ pc[w] = "running"
        /\ attempt[w] = 2
        /\ result[w] = NoResult

\* C16: the flag is honoured only at the top of an iteration: an attempt
\* that is running when stop() is called and then succeeds ends the request
\* with the final path, and "Download stopped by user." is never raised from
\* an attempt in flight or from the wait after it.
C16_RunningAttemptNotCancelled ==
    [][\A w \in Threads :
          /\ (pc[w] = "running" /\ _stop_requested /\ pc'[w] = "done")
             => \E info \in Infos :
                    result'[w] = Returned(FinalPath(output_dir, output_format[w], info))
          /\ (pc[w] \in {"invoke", "running", "sleeping"}) => result'[w] # Stopped]_vars

C16_Witness ==
    \E w \in Threads :
        /\ stop_seen[w].pc = "running"
        /\ engine_calls[w] = stop_seen[w].calls
        /\ pc[w] = "done"
        /\ result[w].kind = "return"

\* the state of the request a thread runs, in the terms of the state machine
\* PENDING, RUNNING_ATTEMPT, RETRY_WAIT, SUCCEEDED, FAILED
RequestState(w) ==
    CASE pc[w] = "idle" -> "NONE"
      [] pc[w] \in {"target", "format_check", "ffmpeg_check", "resolve"} -> "PENDING"
      [] pc[w] = "loop" -> IF attempt[w] = 1 THEN "PENDING" ELSE "RETRY_WAIT"
      [] pc[w] \in {"invoke", "running"} -> "RUNNING_ATTEMPT"
      [] pc[w] = "sleeping" -> "RETRY_WAIT"
      [] OTHER -> IF result[w].kind = "return" THEN "SUCCEEDED" ELSE "FAILED"

\* a request begins in PENDING; a thread that has ended its request is free
RequestBeginsOrIsOver ==
    {<<"NONE", "PENDING">>, <<"SUCCEEDED", "NONE">>, <<"FAILED", "NONE">>}

\* PENDING -> RUNNING_ATTEMPT -> (SUCCEEDED | RETRY_WAIT -> RUNNING_ATTEMPT | FAILED)
ClaimedTransitions ==
    {<<"PENDING", "RUNNING_ATTEMPT">>, <<"RUNNING_ATTEMPT", "SUCCEEDED">>,
     <<"RUNNING_ATTEMPT", "RETRY_WAIT">>, <<"RETRY_WAIT", "RUNNING_ATTEMPT">>,
     <<"RUNNING_ATTEMPT", "FAILED">>}

\* the failures that do not come out of a running attempt
FailFastTransitions == {<<"PENDING", "FAILED">>, <<"RETRY_WAIT", "FAILED">>}

\* every request that is under way reaches SUCCEEDED or FAILED
EveryRequestEnds ==
    \A w \in Threads : (pc[w] \notin {"idle", "done"}) ~> (pc[w] = "done")

\* at most max_retries engine calls per request
AtMostMaxAttemptsCalls ==
    \A w \in Threads :
        engine_calls[w] <= (IF max_retries[w] > 0 THEN max_retries[w] ELSE 0)

\* C17 as claimed: the state of a request changes only along
\* PENDING -> RUNNING_ATTEMPT -> (SUCCEEDED | RETRY_WAIT -> RUNNING_ATTEMPT | FAILED).
C17_ClaimedStateSequence ==
    [][\A w \in Threads :
          RequestState(w)' # RequestState(w)
          => <<RequestState(w), RequestState(w)'>>
                \in ClaimedTransitions \cup RequestBeginsOrIsOver]_vars

\* C17 amended: every request ends in SUCCEEDED or FAILED after at most
\* max_retries engine calls, its state changes only along the claimed
\* transitions and PENDING -> FAILED and RETRY_WAIT -> FAILED, and a request
\* in SUCCEEDED or FAILED keeps its state and outcome.
C17_RequestTerminates ==
    /\ EveryRequestEnds
    /\ []AtMostMaxAttemptsCalls
    /\ [][\A w \in Threads :
             /\ RequestState(w)' # RequestState(w)
                => <<RequestState(w), RequestState(w)'>>
                      \in ClaimedTransitions \cup FailFastTransitions
                            \cup RequestBeginsOrIsOver
             /\ (pc[w] = "done" /\ pc'[w] = "done") => result'[w] = result[w]]_vars

C17_Witness ==
    \E w \in Threads :
        /\ pc[w] = "done"
        /\ max_retries[w] = 3
        /\ engine_calls[w] = 3
        /\ RequestState(w) = "FAILED"
        /\ _stop_requested

\* download() was called when the flag was already set
CalledAfterStop(w) == stop_seen[w].pc = "idle"

\* C18: the flag is never cleared, and every call of download() made after
\* stop() (checks passing, max_retries >= 1) ends with "Download stopped by
\* user." without an engine call or a wait.
C18_StopIsPermanent ==
    /\ [][_stop_requested => _stop_requested']_vars
    /\ [](\A w \in Threads :
            CalledAfterStop(w)
            => /\ _stop_requested
               /\ engine_calls[w] = 0
               /\ waits[w] = <<>>
               /\ (pc[w] = "done" /\ ChecksPassed(w) /\ max_retries[w] >= 1)
                  => result[w] = Stopped)

C18_Witness ==
    \E w \in Threads :
        /\ CalledAfterStop(w)
        /\ pc[w] = "done"
        /\ max_retries[w] = 3
        /\ output_format[w] = "mp3"
        /\ "/new" \in existing_dirs
        /\ result[w] = Stopped

\* C19: with max_retries <= 0 the loop body never runs: once the checks have
\* passed the request ends with "All attempts failed. Last error: None",
\* without an engine call or a wait, also when the flag is set.
C19_NoIterationWithoutRetries ==
    \A w \in Threads :
        (pc[w] # "idle" /\ max_retries[w] <= 0)
        => /\ engine_calls[w] = 0
           /\ waits[w] = <<>>
           /\ pc[w] \notin {"invoke", "running", "sleeping"}
           /\ (pc[w] = "done" /\ ChecksPassed(w)) => result[w] = AllFailed(NoErr)

C19_Witness ==
    \E w \in Threads :
        /\ pc[w] = "done"
        /\ max_retries[w] = 0
        /\ CalledAfterStop(w)
        /\ _stop_requested
        /\ result[w] = AllFailed(NoErr)

====
